---- MODULE Spec2Model ----
(***************************************************************************)
(* Model of playground/views.py: a flat list of functions, each calling    *)
(* the ORM on the store database (products, collections, orders, order     *)
(* items, customers).  A state is the committed database together with a   *)
(* record of the last function call: the database it started from, its     *)
(* outcome, the value it computed and the source lines it executed.        *)
(***************************************************************************)
EXTENDS Integers, Sequences, FiniteSets, TLC

VARIABLES db, before, lastFn, outcome, result, executed

vars == <<db, before, lastFn, outcome, result, executed>>

(* ---------------- bounds of the model ---------------- *)
MaxProd == 2
MaxItems == 2
MaxOrders == 1

(* ---------------- program constants ---------------- *)
None == 0
CollectionPk == 11
GtThreshold == 5
StatsCollection == 3
CustomerId == 1
InvalidProductId == -1
ItemQuantity == 1
ItemUnitPrice == 10
InventoryLimit == 10
PriceLimit == 20
DiscountTenths == 8
ExistsPk == 1
TopOrders == 5

ProdIds == 1..MaxProd
ItemIds == 1..MaxItems
OrderIds == 1..MaxOrders
Titles == {1, 2}
Prices == {PriceLimit - 10, PriceLimit}
Inventories == {InventoryLimit - 5, PriceLimit}
CollIds == {GtThreshold, GtThreshold + 1, CollectionPk}
CustIds == {CustomerId, CustomerId + 1}

(* ---------------- tables ---------------- *)
Tables(Ids, Rows) == UNION {[S -> Rows] : S \in SUBSET Ids}

EmptyTable == [x \in {} |-> None]

Upsert(t, pk, row) == [x \in DOMAIN t \cup {pk} |-> IF x = pk THEN row ELSE t[x]]

Remove(t, ids) == [x \in DOMAIN t \ ids |-> t[x]]

MaxOf(S) == CHOOSE m \in S : \A x \in S : x <= m

MinOf(S) == CHOOSE m \in S : \A x \in S : m <= x

NextId(t) == IF DOMAIN t = {} THEN 1 ELSE MaxOf(DOMAIN t) + 1

ProductRow(t, p, i, c) == [title |-> t, unit_price |-> p, inventory |-> i, collection |-> c]

CollectionRow(t, fp) == [title |-> t, featured_product |-> fp]

OrderRow(c) == [customer |-> c]

ItemRow(o, p, q, u) == [order |-> o, product |-> p, quantity |-> q, unit_price |-> u]

CustomerRow(id) == [first_name |-> id, last_name |-> id]

(* Referential integrity of a database state: every foreign key is null   *)
(* or names an existing row.                                              *)
ForeignKeysHold(d) ==
    /\ \A p \in DOMAIN d.products : d.products[p].collection \in DOMAIN d.collections
    /\ \A c \in DOMAIN d.collections :
          d.collections[c].featured_product \in DOMAIN d.products \cup {None}
    /\ \A o \in DOMAIN d.orders : d.orders[o].customer \in DOMAIN d.customers
    /\ \A i \in DOMAIN d.items :
          /\ d.items[i].order \in DOMAIN d.orders
          /\ d.items[i].product \in DOMAIN d.products

(* ---------------- frames: a function call in progress ---------------- *)
Frame(d) == [db |-> d, outcome |-> "ok", executed |-> <<>>, val |-> None]

Raised(f) == f.outcome # "ok"

(* the source lines executed so far, one entry per statement *)
Mark(ex, line) == IF ex # <<>> /\ ex[Len(ex)] = line THEN ex ELSE Append(ex, line)

Raise(f, line, err) == [f EXCEPT !.outcome = err, !.executed = Mark(@, line)]

Done(f, line, d, v) ==
    [db |-> d, outcome |-> "ok", executed |-> Mark(f.executed, line), val |-> v]

(* ---------------- query sets ---------------- *)
(* Rows that a query does not order come back in an order of the         *)
(* database's choosing: a tie-break tb, a permutation of the product ids. *)
TieBreaks == {s \in [1..MaxProd -> ProdIds] : \A i, j \in 1..MaxProd : s[i] = s[j] => i = j}

Rank(tb, x) == IF \E i \in 1..Len(tb) : tb[i] = x
               THEN CHOOSE i \in 1..Len(tb) : tb[i] = x
               ELSE 0

Precedes(x, y, key, tb) ==
    \/ key[x] < key[y]
    \/ key[x] = key[y] /\ Rank(tb, x) < Rank(tb, y)
    \/ key[x] = key[y] /\ Rank(tb, x) = Rank(tb, y) /\ x <= y

RECURSIVE SortBy(_, _, _)
SortBy(ids, key, tb) ==
    IF ids = {} THEN <<>>
    ELSE LET m == CHOOSE x \in ids : \A y \in ids : Precedes(x, y, key, tb)
         IN <<m>> \o SortBy(ids \ {m}, key, tb)

(* a query set is lazy: the rows it selects and the key it orders them by *)
QuerySet(ids, key) == [kind |-> "queryset", ids |-> ids, key |-> key]

(* the rows of a query set when the database evaluates it *)
Rows(q, tb) == SortBy(q.ids, q.key, tb)

Instance(pk) == [kind |-> "instance", pk |-> pk]

Unordered(d) == [p \in DOMAIN d.products |-> 0]

ByTitle(d) == [p \in DOMAIN d.products |-> d.products[p].title]

ByUnitPrice(d) == [p \in DOMAIN d.products |-> d.products[p].unit_price]

ByUnitPriceDesc(d) == [p \in DOMAIN d.products |-> 0 - d.products[p].unit_price]

(* a statement that builds a query set *)
Query(f, line, ids, key) ==
    IF Raised(f) THEN f ELSE Done(f, line, f.db, QuerySet(ids, key))

(* value[0] read destructively: the row read is taken out of the table *)
SubscriptPop(f, line, i, tb) ==
    IF Raised(f) THEN f
    ELSE IF f.val.kind # "queryset" THEN Raise(f, line, "TypeError")
    ELSE IF i + 1 > Len(Rows(f.val, tb)) THEN Raise(f, line, "IndexError")
    ELSE Done(f, line, [f.db EXCEPT !.products = Remove(@, {Rows(f.val, tb)[i + 1]})],
              Instance(Rows(f.val, tb)[i + 1]))

(* value[i]: a query set yields its row i, anything else cannot be indexed *)
Subscript(f, line, i, tb) ==
    IF Raised(f) THEN f
    ELSE IF f.val.kind # "queryset" THEN Raise(f, line, "TypeError")
    ELSE IF i + 1 > Len(Rows(f.val, tb)) THEN Raise(f, line, "IndexError")
    ELSE Done(f, line, f.db, Instance(Rows(f.val, tb)[i + 1]))

(* earliest(field) and latest(field): the first row in field order, as an *)
(* instance.                                                              *)
FirstOf(f, line, key, tb) ==
    IF Raised(f) THEN f
    ELSE IF DOMAIN f.db.products = {} THEN Raise(f, line, "DoesNotExist")
    ELSE Done(f, line, f.db, Instance(SortBy(DOMAIN f.db.products, key, tb)[1]))

Value(f, line, v) == IF Raised(f) THEN f ELSE Done(f, line, f.db, v)

(* ---------------- say_hello ---------------- *)
SayHello(d) ==
    Value(Frame(d), 19, [template |-> "hello.html", context |-> [name |-> "Maxtar"]])

(* ---------------- basic_queries ---------------- *)
BasicQueries(d) ==
    Value(Value(Query(Frame(d), 31, DOMAIN d.products, Unordered(d)),
                34, d.products),
          38, ExistsPk \in DOMAIN d.products)

(* ---------------- filter_queries ---------------- *)
LowInventory(d) == {p \in DOMAIN d.products : d.products[p].inventory < InventoryLimit}

LowPrice(d) == {p \in DOMAIN d.products : d.products[p].unit_price < PriceLimit}

FilterQueries(d) ==
    Query(Value(Frame(d), 50, [kind |-> "queryset", title__icontains |-> "coffee"]),
          53, LowInventory(d) \cap LowPrice(d), Unordered(d))

(* ---------------- complex_filters ---------------- *)
ComplexFilters(d) ==
    Query(Query(Query(Frame(d), 65, LowInventory(d) \cup LowPrice(d), Unordered(d)),
                71, LowInventory(d) \ LowPrice(d), Unordered(d)),
          76, {p \in DOMAIN d.products : d.products[p].inventory = d.products[p].unit_price},
          Unordered(d))

(* ---------------- ordering_queries ---------------- *)
OrderingQueries(d, tb) ==
    Subscript(
        FirstOf(
            Subscript(
                FirstOf(
                    Subscript(Query(Frame(d), 87, DOMAIN d.products, ByUnitPrice(d)),
                              87, 0, tb),
                    90, ByUnitPrice(d), tb),
                90, 0, tb),
            93, ByUnitPriceDesc(d), tb),
        93, 0, tb)

(* ---------------- projection_queries ---------------- *)
ProjectionQueries(d) ==
    Value(Frame(d), 104,
          [kind |-> "queryset",
           tuples |-> [p \in DOMAIN d.products |->
                          <<p, d.products[p].title,
                            d.collections[d.products[p].collection].title>>]])

(* ---------------- subquery_example ---------------- *)
OrderedProductIds(d) == {d.items[i].product : i \in DOMAIN d.items}

(* the query without its order_by('title') *)
SubqueryExampleUnsorted(d) ==
    Query(Frame(d), 115, {p \in DOMAIN d.products : p \in OrderedProductIds(d)}, Unordered(d))

SubqueryExample(d) ==
    Query(Frame(d), 115, {p \in DOMAIN d.products : p \in OrderedProductIds(d)}, ByTitle(d))

(* ---------------- query_optimization ---------------- *)
Take(s, n) == SubSeq(s, 1, IF Len(s) < n THEN Len(s) ELSE n)

QueryOptimization(d) ==
    Value(Query(Query(Frame(d), 128, DOMAIN d.products, Unordered(d)),
                131, DOMAIN d.products, Unordered(d)),
          134,
          [kind |-> "queryset",
           orders |-> Take(SortBy(DOMAIN d.orders, [o \in DOMAIN d.orders |-> 0 - o], <<>>),
                           TopOrders)])

(* ---------------- aggregation_queries ---------------- *)
RECURSIVE SumOver(_, _)
SumOver(ids, val) ==
    IF ids = {} THEN 0
    ELSE LET x == CHOOSE y \in ids : TRUE IN val[x] + SumOver(ids \ {x}, val)

Aggregate(d, ids) ==
    LET price == [p \in ids |-> d.products[p].unit_price]
        inv == [p \in ids |-> d.products[p].inventory]
    IN IF ids = {}
       THEN [count |-> 0, min_price |-> None, max_price |-> None, avg_price |-> None,
             sum_inventory |-> None]
       ELSE [count |-> Cardinality(ids),
             min_price |-> MinOf({price[p] : p \in ids}),
             max_price |-> MaxOf({price[p] : p \in ids}),
             avg_price |-> SumOver(ids, price) \div Cardinality(ids),
             sum_inventory |-> SumOver(ids, inv)]

AggregationQueries(d) ==
    Value(Value(Frame(d), 147, Aggregate(d, DOMAIN d.products)),
          156,
          Aggregate(d, {p \in DOMAIN d.products : d.products[p].collection = StatsCollection}))

(* ---------------- annotation_examples ---------------- *)
AnnotationExamples(d) ==
    Value(Value(Value(Frame(d), 174,
                      [c \in DOMAIN d.customers |->
                          <<d.customers[c].first_name, " ", d.customers[c].last_name>>]),
                179,
                [c \in DOMAIN d.customers |->
                    <<d.customers[c].first_name, " ", d.customers[c].last_name>>]),
          184,
          [c \in DOMAIN d.customers |->
              Cardinality({o \in DOMAIN d.orders : d.orders[o].customer = c})])

(* ---------------- expression_examples ---------------- *)
ExpressionExamples(d) ==
    Value(Frame(d), 203,
          [p \in DOMAIN d.products |-> (d.products[p].unit_price * DiscountTenths) \div 10])

(* ---------------- tagged_items_example ---------------- *)
TaggedItemsExample(d) ==
    Value(Frame(d), 215, [kind |-> "queryset", content_type |-> "product", object_id |-> 1])

(* ---------------- data_access_examples ---------------- *)
DataAccessExamples(d, tb) ==
    LET q == Query(Frame(d), 226, DOMAIN d.products, Unordered(d))
        first == Subscript(q, 229, 0, tb)
    IN IF Raised(first) THEN first
       ELSE Value(first, 232, Rows(q.val, tb))

(* ---------------- raw_sql_example ---------------- *)
RawSqlExample(d) ==
    Value(Value(Frame(d), 304, d.products), 309, d.customers)

(* ---------------- update_examples ---------------- *)
(* get() that makes the missing row up instead of raising *)
CollectionGetOrCreate(f, line, pk) ==
    IF Raised(f) THEN f
    ELSE IF pk \in DOMAIN f.db.collections
         THEN Done(f, line, f.db, [pk |-> pk, row |-> f.db.collections[pk]])
         ELSE Done(f, line, f.db, [pk |-> pk, row |-> [title |-> None, featured_product |-> None]])

CollectionGet(f, line, pk) ==
    IF Raised(f) THEN f
    ELSE IF pk \in DOMAIN f.db.collections
         THEN Done(f, line, f.db, [pk |-> pk, row |-> f.db.collections[pk]])
         ELSE Raise(f, line, "DoesNotExist")

SetFeaturedProduct(f, line, v) ==
    IF Raised(f) THEN f
    ELSE Done(f, line, f.db, [f.val EXCEPT !.row.featured_product = v])

CollectionSave(f, line) ==
    IF Raised(f) THEN f
    ELSE Done(f, line,
              [f.db EXCEPT !.collections = Upsert(@, f.val.pk, f.val.row)],
              f.val)

(* update() on the whole table, the filter(pk=...) lost *)
CollectionUpdateAll(f, line, pk, v) ==
    IF Raised(f) THEN f
    ELSE Done(f, line,
              [f.db EXCEPT !.collections =
                  [c \in DOMAIN @ |-> [@[c] EXCEPT !.featured_product = v]]],
              Cardinality(DOMAIN f.db.collections))

CollectionUpdate(f, line, pk, v) ==
    IF Raised(f) THEN f
    ELSE LET hit == {c \in DOMAIN f.db.collections : c = pk}
         IN Done(f, line,
                 [f.db EXCEPT !.collections =
                     [c \in DOMAIN @ |->
                         IF c \in hit THEN [@[c] EXCEPT !.featured_product = v]
                         ELSE @[c]]],
                 Cardinality(hit))

(* update_examples up to and including collection.save() *)
AfterSave(d) ==
    CollectionSave(
        SetFeaturedProduct(CollectionGet(Frame(d), 243, CollectionPk), 244, None),
        245)

UpdateExamples(d) == CollectionUpdate(AfterSave(d), 248, CollectionPk, None)

(* ---------------- delete_examples ---------------- *)
CollectionNew(f, line, pk) ==
    IF Raised(f) THEN f
    ELSE Done(f, line, f.db, [pk |-> pk, row |-> CollectionRow(None, None)])

(* Product.collection protects a collection that products still name. *)
Protected(d, ids) == \E p \in DOMAIN d.products : d.products[p].collection \in ids

(* a delete that removes the rows and only then reports the protection *)
DeleteThenCheck(f, line, ids) ==
    IF Protected(f.db, ids)
    THEN Raise([f EXCEPT !.db.collections = Remove(@, ids)], line, "ProtectedError")
    ELSE Done(f, line, [f.db EXCEPT !.collections = Remove(@, ids)],
              Cardinality(ids \cap DOMAIN f.db.collections))

DeleteCollections(f, line, ids) ==
    IF Protected(f.db, ids)
    THEN Raise(f, line, "ProtectedError")
    ELSE Done(f, line, [f.db EXCEPT !.collections = Remove(@, ids)],
              Cardinality(ids \cap DOMAIN f.db.collections))

(* delete() of an instance that was never loaded does nothing *)
CollectionDeleteUnsaved(f, line) ==
    IF Raised(f) THEN f ELSE Done(f, line, f.db, 0)

CollectionDelete(f, line) ==
    IF Raised(f) THEN f ELSE DeleteCollections(f, line, {f.val.pk})

(* id__gte in place of id__gt *)
CollectionFilterDeleteGte(f, line, bound) ==
    IF Raised(f) THEN f
    ELSE DeleteCollections(f, line, {c \in DOMAIN f.db.collections : c >= bound})

CollectionFilterDelete(f, line, bound) ==
    IF Raised(f) THEN f
    ELSE DeleteCollections(f, line, {c \in DOMAIN f.db.collections : c > bound})

DeleteExamples(d) ==
    CollectionFilterDelete(
        CollectionDelete(CollectionNew(Frame(d), 259, CollectionPk), 260),
        264, GtThreshold)

(* ---------------- transaction_example ---------------- *)
OrderNew(f, line, customer) ==
    IF Raised(f) THEN f ELSE Done(f, line, f.db, OrderRow(customer))

OrderSave(f, line) ==
    IF Raised(f) THEN f
    ELSE IF f.val.customer \notin DOMAIN f.db.customers
         THEN Raise(f, line, "IntegrityError")
         ELSE LET id == NextId(f.db.orders)
              IN Done(f, line, [f.db EXCEPT !.orders = Upsert(@, id, f.val)], id)

OrderItemNew(f, line, product, quantity, price) ==
    IF Raised(f) THEN f
    ELSE Done(f, line, f.db, ItemRow(f.val, product, quantity, price))

OrderItemSave(f, line) ==
    IF Raised(f) THEN f
    ELSE IF \/ f.val.order \notin DOMAIN f.db.orders
            \/ f.val.product \notin DOMAIN f.db.products
         THEN Raise(f, line, "IntegrityError")
         ELSE LET id == NextId(f.db.items)
              IN Done(f, line, [f.db EXCEPT !.items = Upsert(@, id, f.val)], id)

(* a block that commits what it did whether or not an error leaves it *)
AtomicNoRollback(f, body) == body

(* with transaction.atomic(): commit on normal exit, roll back when an    *)
(* error leaves the block.                                                *)
Atomic(f, body) == IF Raised(body) THEN [body EXCEPT !.db = f.db] ELSE body

TransactionExample(d) ==
    LET f == Done(Frame(d), 276, d, None)
    IN Atomic(f,
              OrderItemSave(
                  OrderItemNew(OrderSave(OrderNew(f, 278, CustomerId), 280),
                               283, InvalidProductId, ItemQuantity, ItemUnitPrice),
                  288))

(* ---------------- initial databases ---------------- *)
OneCollection == (StatsCollection :> CollectionRow(1, None))

OneCustomer == (CustomerId :> CustomerRow(CustomerId))

(* products of varying price and inventory *)
PricedDBs ==
    {[products |-> p, collections |-> OneCollection, orders |-> EmptyTable,
      items |-> EmptyTable, customers |-> OneCustomer] :
        p \in Tables(ProdIds,
                     {ProductRow(1, pr, inv, StatsCollection) :
                         pr \in Prices, inv \in Inventories})}

(* products of varying title, ordered or not *)
OrderedDBs ==
    UNION {
        {[products |-> p, collections |-> OneCollection,
          orders |-> (1 :> OrderRow(CustomerId)),
          items |-> i, customers |-> OneCustomer] :
            i \in Tables(ItemIds, {ItemRow(1, pid, ItemQuantity, ItemUnitPrice) :
                                      pid \in DOMAIN p})} :
        p \in [ProdIds -> {ProductRow(t, PriceLimit, InventoryLimit, StatsCollection) :
                              t \in Titles}]}

(* collections, featured products and the products of each collection *)
CollectionDBs ==
    UNION {
        {[products |-> p, collections |-> c, orders |-> EmptyTable,
          items |-> EmptyTable, customers |-> EmptyTable] :
            p \in [PS -> {ProductRow(1, PriceLimit, InventoryLimit, cid) : cid \in CS}],
            c \in [CS -> {CollectionRow(1, fp) : fp \in (PS \cap {1}) \cup {None}}]} :
        PS \in SUBSET ProdIds, CS \in SUBSET CollIds}

(* customers, orders and order items *)
SalesDBs ==
    UNION {
        UNION {
            {[products |-> (1 :> ProductRow(1, PriceLimit, InventoryLimit, StatsCollection)),
              collections |-> OneCollection, orders |-> o, items |-> i,
              customers |-> [c \in CS |-> CustomerRow(c)]] :
                i \in Tables(ItemIds, {ItemRow(oid, 1, ItemQuantity, ItemUnitPrice) :
                                          oid \in DOMAIN o})} :
            o \in Tables(OrderIds, {OrderRow(c) : c \in CS})} :
        CS \in SUBSET CustIds}

InitDBs == PricedDBs \cup OrderedDBs \cup CollectionDBs \cup SalesDBs

Init ==
    /\ db \in InitDBs
    /\ ForeignKeysHold(db)
    /\ before = db
    /\ lastFn = "none"
    /\ outcome = "ok"
    /\ result = None
    /\ executed = <<>>

(* a call runs the function on the committed database and records it *)
Call(fn, f) ==
    \E r \in {f} :
        /\ before' = db
        /\ lastFn' = fn
        /\ db' = r.db
        /\ outcome' = r.outcome
        /\ result' = r.val
        /\ executed' = r.executed

say_hello == Call("say_hello", SayHello(db))

basic_queries == Call("basic_queries", BasicQueries(db))

filter_queries == Call("filter_queries", FilterQueries(db))

complex_filters == Call("complex_filters", ComplexFilters(db))

ordering_queries == \E tb \in TieBreaks : Call("ordering_queries", OrderingQueries(db, tb))

projection_queries == Call("projection_queries", ProjectionQueries(db))

subquery_example == Call("subquery_example", SubqueryExample(db))

query_optimization == Call("query_optimization", QueryOptimization(db))

aggregation_queries == Call("aggregation_queries", AggregationQueries(db))

annotation_examples == Call("annotation_examples", AnnotationExamples(db))

expression_examples == Call("expression_examples", ExpressionExamples(db))

tagged_items_example == Call("tagged_items_example", TaggedItemsExample(db))

data_access_examples ==
    \E tb \in TieBreaks : Call("data_access_examples", DataAccessExamples(db, tb))

raw_sql_example == Call("raw_sql_example", RawSqlExample(db))

update_examples == Call("update_examples", UpdateExamples(db))

delete_examples == Call("delete_examples", DeleteExamples(db))

transaction_example == Call("transaction_example", TransactionExample(db))

Next ==
    \/ say_hello
    \/ basic_queries
    \/ filter_queries
    \/ complex_filters
    \/ ordering_queries
    \/ projection_queries
    \/ subquery_example
    \/ query_optimization
    \/ aggregation_queries
    \/ annotation_examples
    \/ expression_examples
    \/ tagged_items_example
    \/ data_access_examples
    \/ raw_sql_example
    \/ update_examples
    \/ delete_examples
    \/ transaction_example

Spec == Init /\ [][Next]_vars

(* ---------------- the functions as a family ---------------- *)
QueryFunctions ==
    {"say_hello", "basic_queries", "filter_queries", "complex_filters",
     "ordering_queries", "projection_queries", "subquery_example",
     "query_optimization", "aggregation_queries", "annotation_examples",
     "expression_examples", "data_access_examples"}

MutatingFunctions == {"update_examples", "delete_examples", "transaction_example"}

Functions ==
    QueryFunctions \cup MutatingFunctions \cup {"tagged_items_example", "raw_sql_example"}

Run(fn, d, tb) ==
    CASE fn = "say_hello" -> SayHello(d)
      [] fn = "basic_queries" -> BasicQueries(d)
      [] fn = "filter_queries" -> FilterQueries(d)
      [] fn = "complex_filters" -> ComplexFilters(d)
      [] fn = "ordering_queries" -> OrderingQueries(d, tb)
      [] fn = "projection_queries" -> ProjectionQueries(d)
      [] fn = "subquery_example" -> SubqueryExample(d)
      [] fn = "query_optimization" -> QueryOptimization(d)
      [] fn = "aggregation_queries" -> AggregationQueries(d)
      [] fn = "annotation_examples" -> AnnotationExamples(d)
      [] fn = "expression_examples" -> ExpressionExamples(d)
      [] fn = "tagged_items_example" -> TaggedItemsExample(d)
      [] fn = "data_access_examples" -> DataAccessExamples(d, tb)
      [] fn = "raw_sql_example" -> RawSqlExample(d)
      [] fn = "update_examples" -> UpdateExamples(d)
      [] fn = "delete_examples" -> DeleteExamples(d)
      [] fn = "transaction_example" -> TransactionExample(d)

(* what a caller can observe of a call: the error raised, or the value   *)
(* returned, which is None for every function but say_hello              *)
Outcome(fn, f) ==
    IF Raised(f) THEN <<f.outcome>>
    ELSE IF fn = "say_hello" THEN <<"ok", f.val>>
    ELSE <<"ok", None>>

OutcomesOf(fn, d) == {Outcome(fn, Run(fn, d, tb)) : tb \in TieBreaks}

(* ======================= the claims ======================= *)

(* C1: transaction_example rolls back on failure: it always ends by an    *)
(* error leaving the atomic block, and the Order and OrderItem tables are *)
(* then what they were before the call (so is every other table).         *)
C1_TransactionRollsBack ==
    lastFn = "transaction_example" =>
        /\ outcome = "IntegrityError"
        /\ db.orders = before.orders
        /\ db.items = before.items
        /\ db = before

(* the order was inserted inside the block and the item's save failed *)
C1_Witness ==
    /\ lastFn = "transaction_example"
    /\ executed = <<276, 278, 280, 283, 288>>
    /\ outcome = "IntegrityError"
    /\ before.orders # EmptyTable
    /\ db.orders = before.orders

(* C2 as stated: the outcome of every function g is the same whether or  *)
(* not the last function ran before it.                                   *)
C2_NoDataFlow ==
    \A g \in Functions : OutcomesOf(g, db) = OutcomesOf(g, before)

(* C2 amended: the functions interact through the committed rows only.   *)
(* Running any function but delete_examples first leaves the outcome of  *)
(* every function as it was; once delete_examples got past its first     *)
(* delete, update_examples raises DoesNotExist.                           *)
C2_DataFlowsThroughRows ==
    /\ (lastFn \in Functions \ {"delete_examples"} /\ db # before) =>
          \A g \in Functions : OutcomesOf(g, db) = OutcomesOf(g, before)
    /\ lastFn \in Functions \ {"update_examples", "delete_examples"} => db = before
    /\ (lastFn = "delete_examples" /\ Len(executed) = 3) =>
          OutcomesOf("update_examples", db) = {<<"DoesNotExist">>}

(* update_examples would have succeeded, and fails after delete_examples *)
C2_Witness ==
    /\ lastFn = "delete_examples"
    /\ OutcomesOf("update_examples", before) = {<<"ok", None>>}
    /\ OutcomesOf("update_examples", db) = {<<"DoesNotExist">>}

(* all the row changes a mutating function makes when nothing fails *)
AllChanges(fn, d) ==
    CASE fn = "update_examples" ->
            [d EXCEPT !.collections =
                [c \in DOMAIN @ |->
                    IF c = CollectionPk THEN [@[c] EXCEPT !.featured_product = None]
                    ELSE @[c]]]
      [] fn = "delete_examples" ->
            [d EXCEPT !.collections =
                Remove(@, {c \in DOMAIN @ : c = CollectionPk \/ c > GtThreshold})]
      [] fn = "transaction_example" ->
            [d EXCEPT !.orders = Upsert(@, NextId(@), OrderRow(CustomerId)),
                      !.items = Upsert(@, NextId(@),
                                       ItemRow(NextId(d.orders), InvalidProductId,
                                               ItemQuantity, ItemUnitPrice))]

(* C3 as stated: when a mutating function has ended, the database holds  *)
(* all of its row changes or none of them.                                *)
C3_AllOrNothing ==
    lastFn \in MutatingFunctions => db \in {before, AllChanges(lastFn, before)}

(* C3 amended: each ORM statement is all-or-nothing and so is the atomic *)
(* block of transaction_example; update_examples and delete_examples     *)
(* commit their statements one by one.  delete_examples ends with none   *)
(* of its changes when line 260 raises, with all of them when it         *)
(* returns, and with collection 11 alone deleted when line 264 raises.   *)
C3_StatementsCommitSeparately ==
    /\ lastFn = "transaction_example" => db = before
    /\ lastFn = "update_examples" =>
          \/ outcome # "ok" /\ db = before
          \/ outcome = "ok" /\ db = AllChanges("update_examples", before)
    /\ lastFn = "delete_examples" =>
          \/ outcome = "ok" /\ db = AllChanges("delete_examples", before)
          \/ outcome # "ok" /\ executed = <<259, 260>> /\ db = before
          \/ /\ outcome # "ok"
             /\ executed = <<259, 260, 264>>
             /\ db = [before EXCEPT !.collections = Remove(@, {CollectionPk})]

(* delete_examples ended by an error with a part of its deletions made *)
C3_Witness ==
    /\ lastFn = "delete_examples"
    /\ outcome = "ProtectedError"
    /\ CollectionPk \in DOMAIN before.collections
    /\ CollectionPk \notin DOMAIN db.collections
    /\ \E c \in DOMAIN db.collections : c > GtThreshold

(* the statements of each function, in order *)
StatementsOf(fn) ==
    CASE fn = "say_hello" -> <<19>>
      [] fn = "basic_queries" -> <<31, 34, 38>>
      [] fn = "filter_queries" -> <<50, 53>>
      [] fn = "complex_filters" -> <<65, 71, 76>>
      [] fn = "ordering_queries" -> <<87, 90, 93>>
      [] fn = "projection_queries" -> <<104>>
      [] fn = "subquery_example" -> <<115>>
      [] fn = "query_optimization" -> <<128, 131, 134>>
      [] fn = "aggregation_queries" -> <<147, 156>>
      [] fn = "annotation_examples" -> <<174, 179, 184>>
      [] fn = "expression_examples" -> <<203>>
      [] fn = "tagged_items_example" -> <<215>>
      [] fn = "data_access_examples" -> <<226, 229, 232>>
      [] fn = "raw_sql_example" -> <<304, 309>>
      [] fn = "update_examples" -> <<243, 244, 245, 248>>
      [] fn = "delete_examples" -> <<259, 260, 264>>
      [] fn = "transaction_example" -> <<276, 278, 280, 283, 288>>

(* C4: failures propagate.  update_examples without a collection 11      *)
(* raises at the get(), runs neither save() nor update() and leaves the  *)
(* database unchanged; a function that raised ran no statement after the *)
(* one that raised, and only a raise stops a function early.             *)
C4_FailuresPropagate ==
    /\ (lastFn = "update_examples" /\ CollectionPk \notin DOMAIN before.collections) =>
          /\ outcome = "DoesNotExist"
          /\ executed = <<243>>
          /\ db = before
    /\ lastFn \in Functions =>
          /\ Len(executed) <= Len(StatementsOf(lastFn))
          /\ executed = SubSeq(StatementsOf(lastFn), 1, Len(executed))
          /\ (outcome = "ok" => executed = StatementsOf(lastFn))
    /\ (lastFn = "update_examples" /\ outcome # "ok") => db = before

(* update_examples called on collections that do not include 11 *)
C4_Witness ==
    /\ lastFn = "update_examples"
    /\ before.collections # EmptyTable
    /\ CollectionPk \notin DOMAIN before.collections
    /\ outcome = "DoesNotExist"

(* C5: the query-only functions leave every table as it was, whether     *)
(* they return or raise; a call that changed a row was a call of         *)
(* update_examples, delete_examples or transaction_example.              *)
C5_QueriesChangeNothing ==
    /\ lastFn \in QueryFunctions => db = before
    /\ db # before => lastFn \in MutatingFunctions

(* a query-only function that raised on a table that holds rows *)
C5_Witness ==
    /\ lastFn = "ordering_queries"
    /\ outcome # "ok"
    /\ before.products # EmptyTable
    /\ db = before

(* C6 as stated: on a non-empty product table the three statements of    *)
(* ordering_queries complete, order_by(...)[0] and earliest(...)[0] both *)
(* yield a product of the minimum price and latest(...)[0] one of the    *)
(* maximum price.                                                         *)
C6_OrderingCompletes ==
    (lastFn = "ordering_queries" /\ before.products # EmptyTable) =>
        /\ outcome = "ok"
        /\ executed = <<87, 90, 93>>
        /\ result.kind = "instance"
        /\ before.products[result.pk].unit_price =
              MaxOf({before.products[p].unit_price : p \in DOMAIN before.products})
        /\ \A tb \in TieBreaks :
              LET all == DOMAIN before.products
                  lowest == MinOf({before.products[p].unit_price : p \in all})
                  first == Subscript(Query(Frame(before), 87, all, ByUnitPrice(before)),
                                     87, 0, tb)
                  second == Subscript(FirstOf(first, 90, ByUnitPrice(before), tb), 90, 0, tb)
              IN /\ ~Raised(first)
                 /\ ~Raised(second)
                 /\ before.products[first.val.pk].unit_price = lowest
                 /\ before.products[second.val.pk].unit_price = lowest

(* C7: when delete_examples completes no collection with id > 5 is left, *)
(* every collection with id <= 5 is there with its fields unchanged and  *)
(* nothing was added; a collection 11 missing at the start makes the     *)
(* first delete a no-op, not an error.                                    *)
C7_DeletesAboveThreshold ==
    /\ (lastFn = "delete_examples" /\ outcome = "ok") =>
          /\ \A c \in DOMAIN db.collections : c <= GtThreshold
          /\ \A c \in DOMAIN before.collections :
                c <= GtThreshold =>
                    c \in DOMAIN db.collections /\ db.collections[c] = before.collections[c]
          /\ DOMAIN db.collections \subseteq DOMAIN before.collections
    /\ (lastFn = "delete_examples" /\ CollectionPk \notin DOMAIN before.collections) =>
          executed = <<259, 260, 264>>

(* no collection 11 at the start, collections on both sides of 5 *)
C7_Witness ==
    /\ lastFn = "delete_examples"
    /\ outcome = "ok"
    /\ CollectionPk \notin DOMAIN before.collections
    /\ \E c \in DOMAIN before.collections : c > GtThreshold
    /\ \E c \in DOMAIN db.collections : c <= GtThreshold

(* C8: with a collection 11, the save() step sets its featured_product   *)
(* to None and changes nothing else, the update() step leaves the        *)
(* database as save() left it, and a second run changes nothing.          *)
C8_SaveAndUpdateAgree ==
    (lastFn = "update_examples" /\ CollectionPk \in DOMAIN before.collections) =>
        LET saved == AfterSave(before).db
        IN /\ outcome = "ok"
           /\ DOMAIN saved.collections = DOMAIN before.collections
           /\ saved.collections[CollectionPk].featured_product = None
           /\ saved.collections[CollectionPk].title = before.collections[CollectionPk].title
           /\ \A c \in DOMAIN before.collections \ {CollectionPk} :
                 saved.collections[c] = before.collections[c]
           /\ saved.products = before.products
           /\ saved.orders = before.orders
           /\ saved.items = before.items
           /\ saved.customers = before.customers
           /\ db = saved
           /\ UpdateExamples(db).db = db
           /\ ~Raised(UpdateExamples(db))

(* collection 11 had a featured product and other collections have one *)
C8_Witness ==
    /\ lastFn = "update_examples"
    /\ outcome = "ok"
    /\ CollectionPk \in DOMAIN before.collections
    /\ before.collections[CollectionPk].featured_product # None
    /\ \E c \in DOMAIN db.collections : db.collections[c].featured_product # None

====
